---- MODULE Spec2Model ----
(***************************************************************************)
(* Control Rig Tools: the IK/FK switch bookkeeping of src/core/switches.py *)
(* and the operators of src/operators/__init__.py as a state machine.      *)
(*                                                                         *)
(* Strings are sequences of atoms.  An atom is one character ("_", ";",    *)
(* " ", "a") or an indivisible word that the names drawn below never       *)
(* split ("DEF", "FK", "MCH", "CRS", "CTRL", "Settings").  The Python      *)
(* string functions the code uses (startswith, endswith, rsplit, split,    *)
(* strip, join, f-strings) are defined on these sequences.                 *)
(*                                                                         *)
(* Host collections are modelled by what the add-on does with them:        *)
(* constraints.new appends to the bone's constraint stack, c.name = x      *)
(* stores x, driver_add appends a driver, remove removes.  The host's own  *)
(* name uniquifier is not modelled, so that uniqueness of names is a       *)
(* property of the add-on's guards and not of the host.  The driver        *)
(* collection is a bag: the code only ever matches drivers by data path.   *)
(***************************************************************************)
EXTENDS Integers, Sequences, FiniteSets, Bags, TLC

VARIABLES
    bones,      \* armature.pose.bones: the pose bone names, in order
    props,      \* numeric custom properties of CTRL_Settings: name -> value
    tag,        \* per bone: the raw control_rig_tools string, where present
    cons,       \* per bone: its constraint stack
    drivers,    \* armature.animation_data.drivers, a bag of driver records
    proxies,    \* scene.crl_switch_proxies
    last,       \* the operation that ran last, its arguments and its result
    ops         \* the number of operations run so far

vars == <<bones, props, tag, cons, drivers, proxies, last, ops>>

(***************************************************************************)
(* Bounds                                                                  *)
(***************************************************************************)
\* The number of operations run on the rig
MaxOps == 4

\* Switch values are k / ValueSteps for k in 0..ValueSteps, so 1.0 is ValueSteps.
ValueSteps == 2

Values == 0..ValueSteps

(***************************************************************************)
(* Python string functions on atom sequences                               *)
(***************************************************************************)
StartsWith(s, p) == Len(s) >= Len(p) /\ SubSeq(s, 1, Len(p)) = p

EndsWith(s, p) == Len(s) >= Len(p) /\ SubSeq(s, Len(s) - Len(p) + 1, Len(s)) = p

\* s[n:]
DropFirst(s, n) == SubSeq(s, n + 1, Len(s))

Range(s) == {s[i] : i \in DOMAIN s}

Contains(list, x) == \E i \in DOMAIN list : list[i] = x

\* list.index(x): the first position of x (1-based here)
IndexOf(list, x) == CHOOSE i \in DOMAIN list : list[i] = x /\ \A j \in 1..(i - 1) : list[j] # x

\* list.remove(x): drops the first occurrence
RemoveFirst(list, x) ==
    IF Contains(list, x)
    THEN LET i == IndexOf(list, x) IN SubSeq(list, 1, i - 1) \o SubSeq(list, i + 1, Len(list))
    ELSE list

\* name.rsplit("_", 1)[-1]
derive_base_name_from_last_underscore(name) ==
    LET us == {i \in DOMAIN name : name[i] = "_"}
    IN IF us = {} THEN name
       ELSE LET k == CHOOSE i \in us : \A j \in us : j <= i
            IN SubSeq(name, k + 1, Len(name))

\* raw.split(sep): the parts between the occurrences of the atom sep
RECURSIVE Split(_, _)
Split(raw, sep) ==
    LET hits == {i \in DOMAIN raw : raw[i] = sep}
    IN IF hits = {} THEN <<raw>>
       ELSE LET k == CHOOSE i \in hits : \A j \in hits : i <= j
            IN <<SubSeq(raw, 1, k - 1)>> \o Split(SubSeq(raw, k + 1, Len(raw)), sep)

\* p.strip(): leading and trailing whitespace removed
RECURSIVE Strip(_)
Strip(p) ==
    IF p = <<>> THEN p
    ELSE IF Head(p) = " " THEN Strip(Tail(p))
    ELSE IF p[Len(p)] = " " THEN Strip(SubSeq(p, 1, Len(p) - 1))
    ELSE p

\* sep.join(list)
RECURSIVE Join(_, _)
Join(list, sep) ==
    IF list = <<>> THEN <<>>
    ELSE IF Len(list) = 1 THEN list[1]
    ELSE list[1] \o <<sep>> \o Join(Tail(list), sep)

\* [f(x) for x in list if keep(x)] for the one comprehension of _parse_bone_switches
RECURSIVE StripNonEmpty(_)
StripNonEmpty(parts) ==
    IF parts = <<>> THEN <<>>
    ELSE (IF Strip(Head(parts)) # <<>> THEN <<Strip(Head(parts))>> ELSE <<>>)
         \o StripNonEmpty(Tail(parts))

(***************************************************************************)
(* Names                                                                   *)
(***************************************************************************)
CTRL_Settings == <<"CTRL", "_", "Settings">>

DEF_ == <<"DEF", "_">>

FK_ == <<"FK", "_">>

MCH_ == <<"MCH", "_">>

CRS_FK_ == <<"CRS", "_", "FK", "_">>

CRS_MCH_ == <<"CRS", "_", "MCH", "_">>

\* f'pose.bones["{pb_name}"].constraints["{cname}"].influence'
InfluencePath(pb_name, cname) ==
    <<"pose.bones[\"">> \o pb_name \o <<"\"].constraints[\"">> \o cname \o <<"\"].influence">>

\* f'pose.bones["CTRL_Settings"]["{sw}"]'
SwitchPropPath(sw) == <<"pose.bones[\"CTRL_Settings\"][\"">> \o sw \o <<"\"]">>

\* f'var{idx}'
VarName(idx) == <<"var", idx>>

(***************************************************************************)
(* The rigs and the inputs the operations are run on                       *)
(***************************************************************************)
DEF_a_L == <<"DEF", "_", "a", "_", "L">>

FK_a_L == <<"FK", "_", "a", "_", "L">>

MCH_a_L == <<"MCH", "_", "a", "_", "L">>

DEF_c == <<"DEF", "_", "c">>

FK_c == <<"FK", "_", "c">>

\* A rig with a full triplet (a_L) and a DEF/FK pair (c).
Armatures == {<<CTRL_Settings, DEF_a_L, FK_a_L, MCH_a_L, DEF_c, FK_c>>}

\* Switch names: "L" is a "_"-suffix of "arm_L".
SwitchNames == {<<"L">>, <<"arm", "_", "L">>}

\* context.selected_pose_bones
Selections == {<<>>, <<DEF_a_L>>, <<FK_c>>}

\* base_name arguments of remove_triplet_from_switch
BaseNames == {<<"L">>, <<"c">>}

\* bone_name arguments of remove_bone_from_switch; the last one names no bone
BoneArgs == {DEF_a_L, DEF_c, <<"DEF", "_", "x">>}

Modes == {"POSE", "OBJECT"}

\* context.object: an armature, or anything else (another object, None)
ObjectTypes == {"ARMATURE", "NONE"}

BoneNames == Range(bones)

IsDef(name) == StartsWith(name, DEF_)

(***************************************************************************)
(* Custom properties (Python dict semantics)                               *)
(***************************************************************************)
\* d[k] = v
DictSet(d, k, v) == [x \in (DOMAIN d) \cup {k} |-> IF x = k THEN v ELSE d[x]]

\* del d[k]
DictDel(d, k) == [x \in (DOMAIN d) \ {k} |-> d[x]]

EmptyDict == [x \in {} |-> 0]

(***************************************************************************)
(* switches.py: bone tags                                                  *)
(***************************************************************************)
\* _parse_bone_switches on the bone's control_rig_tools value in tags
_parse_bone_switches(tags, b) ==
    IF b \in DOMAIN tags THEN StripNonEmpty(Split(tags[b], ";")) ELSE <<>>

bone_has_switch(tags, b, switch_name) == Contains(_parse_bone_switches(tags, b), switch_name)

\* _add_switch_to_bone: the tags after adding switch_name to bone b
_add_switch_to_bone(tags, b, switch_name) ==
    LET existing == _parse_bone_switches(tags, b)
    IN IF Contains(existing, switch_name) THEN tags
       ELSE DictSet(tags, b, Join(Append(existing, switch_name), ";"))

\* list_switches: the numeric properties of CTRL_Settings
list_switches(p) == p

\* add_switch_property, CTRL_Settings present
add_switch_property(p, name) == IF name \in DOMAIN p THEN p ELSE DictSet(p, name, 0)

(***************************************************************************)
(* switches.py: constraints                                                *)
(***************************************************************************)
NewConstraint(cname, target_name) ==
    [type |-> "COPY_TRANSFORMS", name |-> cname, subtarget |-> target_name,
     mute |-> FALSE, owner_space |-> "LOCAL", target_space |-> "LOCAL"]

Matches(c, cname, target_name) ==
    c.type = "COPY_TRANSFORMS" /\ c.name = cname /\ c.subtarget = target_name

\* Mutant: the existing constraint is never found
_ensure_constraint_unique_blind(stack, cname, target_name) == TRUE

_ensure_constraint_unique(stack, cname, target_name) ==
    ~ \E i \in DOMAIN stack : Matches(stack[i], cname, target_name)

\* Mutant: a constraint that is found again is switched back on
_add_copy_transforms_unmutes(stack, target_name, cname) ==
    IF \E i \in DOMAIN stack : Matches(stack[i], cname, target_name)
    THEN LET i == CHOOSE k \in DOMAIN stack :
                      /\ Matches(stack[k], cname, target_name)
                      /\ \A j \in 1..(k - 1) : ~ Matches(stack[j], cname, target_name)
         IN [stack |-> [stack EXCEPT ![i].owner_space = "LOCAL", ![i].target_space = "LOCAL",
                                     ![i].mute = FALSE],
             at |-> i]
    ELSE [stack |-> Append(stack, NewConstraint(cname, target_name)), at |-> Len(stack) + 1]

\* _add_copy_transforms: the bone's stack afterwards and the position of the
\* constraint it returns
_add_copy_transforms(stack, target_name, cname) ==
    IF ~ _ensure_constraint_unique(stack, cname, target_name)
       /\ \E i \in DOMAIN stack : Matches(stack[i], cname, target_name)
    THEN LET i == CHOOSE k \in DOMAIN stack :
                      /\ Matches(stack[k], cname, target_name)
                      /\ \A j \in 1..(k - 1) : ~ Matches(stack[j], cname, target_name)
         IN [stack |-> [stack EXCEPT ![i].owner_space = "LOCAL", ![i].target_space = "LOCAL"],
             at |-> i]
    ELSE [stack |-> Append(stack, NewConstraint(cname, target_name)), at |-> Len(stack) + 1]

\* pose_bone.constraints.move(from_index, to_index), 1-based here
MoveConstraint(stack, from, to) ==
    LET c == stack[from]
        rest == SubSeq(stack, 1, from - 1) \o SubSeq(stack, from + 1, Len(stack))
    IN SubSeq(rest, 1, to - 1) \o <<c>> \o SubSeq(rest, to, Len(rest))

(***************************************************************************)
(* Drivers                                                                 *)
(***************************************************************************)
\* every driver whose data_path is in paths removed
RemoveDriversAt(bag, paths) ==
    LET keep == {d \in DOMAIN bag : d.data_path \notin paths}
    IN [d \in keep |-> bag[d]]

\* the number of drivers whose data_path is in paths
CountDriversAt(bag, paths) ==
    BagCardinality([d \in {x \in DOMAIN bag : x.data_path \in paths} |-> bag[d]])

\* constraint.driver_add("influence") followed by the driver's set-up
AddDriver(bag, d) == bag (+) SetToBag({d})

DriversAtPath(bag, path) == {d \in DOMAIN bag : d.data_path = path}

\* Driver expressions, as syntax trees
ExprVar(idx) == [k |-> "name", id |-> VarName(idx)]

ExprNum(n) == [k |-> "num", v |-> n]

\* f'var{idx_s} if (' + ' and '.join([f'var{j}==0' for j in range(idx_s)]) + ') else 0'
ExprSelect(idx_s) ==
    [k |-> "ifelse", then |-> ExprVar(idx_s),
     test |-> [j \in 1..idx_s |-> VarName(j - 1)], else |-> ExprNum(0)]

\* f'1 - ({expr})'
ExprInvert(e) == [k |-> "sub", l |-> ExprNum(1), r |-> e]

\* Mutant: the switches ahead are not tested
FinalExpr_noPriority(idx_s) == ExprVar(idx_s)

\* final_expr of the FK branch / expr of the MCH branch
FinalExpr(idx_s) == IF idx_s = 0 THEN ExprVar(0) ELSE ExprSelect(idx_s)

\* the variables created for switches_for_bone
DriverVariables(switches_for_bone) ==
    [i \in DOMAIN switches_for_bone |->
        [name |-> VarName(i - 1), type |-> "SINGLE_PROP",
         data_path |-> SwitchPropPath(switches_for_bone[i])]]

NewDriver(path, switches_for_bone, s, invert) ==
    LET idx_s == IndexOf(switches_for_bone, s) - 1 IN
    [data_path |-> path, type |-> "SCRIPTED",
     variables |-> DriverVariables(switches_for_bone),
     expression |-> IF invert THEN ExprInvert(FinalExpr(idx_s)) ELSE FinalExpr(idx_s)]

(***************************************************************************)
(* switches.py: build_rebuild_switches                                     *)
(***************************************************************************)
RECURSIVE Concat(_)
Concat(lists) == IF lists = <<>> THEN <<>> ELSE Head(lists) \o Concat(Tail(lists))

RECURSIVE SelectDef(_)
SelectDef(names) ==
    IF names = <<>> THEN <<>>
    ELSE (IF IsDef(Head(names)) THEN <<Head(names)>> ELSE <<>>) \o SelectDef(Tail(names))

\* The (switch, bone) appends of the first loop, in order: one entry per
\* switch listed on each DEF_ bone.
TaggedSwitches(bns, tags) ==
    LET defs == SelectDef(bns)
    IN Concat([i \in DOMAIN defs |-> _parse_bone_switches(tags, defs[i])])

\* The keys of switch_to_bones, in insertion order
RECURSIVE FirstSeen(_, _)
FirstSeen(list, seen) ==
    IF list = <<>> THEN seen
    ELSE FirstSeen(Tail(list), IF Contains(seen, Head(list)) THEN seen ELSE Append(seen, Head(list)))

\* len(switch_to_bones.get(s, [])) for every key s
GroupSizes(bns, tags) ==
    LET all == TaggedSwitches(bns, tags)
    IN [s \in Range(all) |-> Cardinality({i \in DOMAIN all : all[i] = s})]

\* sorted(list, key=size): stable, ascending
RECURSIVE SortedAscending(_, _)
SortedAscending(list, size) ==
    IF list = <<>> THEN <<>>
    ELSE LET rest == SortedAscending(SubSeq(list, 1, Len(list) - 1), size)
             x == list[Len(list)]
             \* x goes after every element that is not larger than it
             after == {i \in DOMAIN rest : size[rest[i]] <= size[x]}
             k == IF after = {} THEN 0 ELSE CHOOSE i \in after : \A j \in after : j <= i
         IN SubSeq(rest, 1, k) \o <<x>> \o SubSeq(rest, k + 1, Len(rest))

\* sorted(list, key=size, reverse=True): stable, descending
RECURSIVE SortedDescending(_, _)
SortedDescending(list, size) ==
    IF list = <<>> THEN <<>>
    ELSE LET rest == SortedDescending(SubSeq(list, 1, Len(list) - 1), size)
             x == list[Len(list)]
             after == {i \in DOMAIN rest : size[rest[i]] >= size[x]}
             k == IF after = {} THEN 0 ELSE CHOOSE i \in after : \A j \in after : j <= i
         IN SubSeq(rest, 1, k) \o <<x>> \o SubSeq(rest, k + 1, Len(rest))

\* switch_order: the switches in priority order, fewest bones first
SwitchOrder(bns, tags) ==
    SortedAscending(FirstSeen(TaggedSwitches(bns, tags), <<>>), GroupSizes(bns, tags))

\* switches_for_bone
RECURSIVE SelectFor(_, _, _)
SelectFor(order, tags, b) ==
    IF order = <<>> THEN <<>>
    ELSE (IF bone_has_switch(tags, b, Head(order)) THEN <<Head(order)>> ELSE <<>>)
         \o SelectFor(Tail(order), tags, b)

SwitchesForBone(order, tags, b) == SelectFor(order, tags, b)

\* Mutant: the drivers already on the influence are kept
BuildOne_keepsOldDrivers(r, b, target_name, cname, sfb, s, invert) ==
    LET ac == _add_copy_transforms(r.cons, target_name, cname)
        path == InfluencePath(b, ac.stack[ac.at].name)
    IN [cons |-> ac.stack, drivers |-> AddDriver(r.drivers, NewDriver(path, sfb, s, invert))]

\* One constraint and its driver: _add_copy_transforms, removal of the drivers on
\* its influence, driver_add with the variables and the expression.
\* r = [cons |-> the bone's stack, drivers |-> the bag]
BuildOne(r, b, target_name, cname, sfb, s, invert) ==
    LET ac == _add_copy_transforms(r.cons, target_name, cname)
        path == InfluencePath(b, ac.stack[ac.at].name)
        kept == RemoveDriversAt(r.drivers, {path})
    IN [cons |-> ac.stack, drivers |-> AddDriver(kept, NewDriver(path, sfb, s, invert))]

\* Mutant: both constraints are built whether or not the counterpart exists
RECURSIVE BuildSwitchesOfBone_ignoresMissing(_, _, _, _, _, _)
BuildSwitchesOfBone_ignoresMissing(r, b, has_fk, has_mch, sfb, todo) ==
    IF todo = <<>> THEN r
    ELSE LET s == Head(todo)
             base_name == DropFirst(b, Len(DEF_))
             r1 == BuildOne(r, b, FK_ \o base_name, CRS_FK_ \o s, sfb, s, FALSE)
             r2 == BuildOne(r1, b, MCH_ \o base_name, CRS_MCH_ \o s, sfb, s, TRUE)
         IN BuildSwitchesOfBone_ignoresMissing(r2, b, has_fk, has_mch, sfb, Tail(todo))

\* The body of "for s in switches_for_bone", for the switches todo
RECURSIVE BuildSwitchesOfBone(_, _, _, _, _, _)
BuildSwitchesOfBone(r, b, has_fk, has_mch, sfb, todo) ==
    IF todo = <<>> THEN r
    ELSE LET s == Head(todo)
             base_name == DropFirst(b, Len(DEF_))
             r1 == IF has_fk THEN BuildOne(r, b, FK_ \o base_name, CRS_FK_ \o s, sfb, s, FALSE) ELSE r
             r2 == IF has_mch THEN BuildOne(r1, b, MCH_ \o base_name, CRS_MCH_ \o s, sfb, s, TRUE) ELSE r1
         IN BuildSwitchesOfBone(r2, b, has_fk, has_mch, sfb, Tail(todo))

\* desired_constraint_names
RECURSIVE DesiredNames(_, _, _)
DesiredNames(desired_switch_order, has_fk, has_mch) ==
    IF desired_switch_order = <<>> THEN <<>>
    ELSE (IF has_fk THEN <<CRS_FK_ \o Head(desired_switch_order)>> ELSE <<>>)
         \o (IF has_mch THEN <<CRS_MCH_ \o Head(desired_switch_order)>> ELSE <<>>)
         \o DesiredNames(Tail(desired_switch_order), has_fk, has_mch)

\* Mutant: no constraint is moved
Reorder_none(stack, names, target_index) == stack

\* The reorder loop: each desired constraint that is present is moved to target_index
RECURSIVE Reorder(_, _, _)
Reorder(stack, names, target_index) ==
    IF names = <<>> THEN stack
    ELSE LET found == {i \in DOMAIN stack : stack[i].name = Head(names)}
         IN IF found = {} THEN Reorder(stack, Tail(names), target_index)
            ELSE LET cur_index == CHOOSE i \in found : \A j \in found : i <= j
                 IN Reorder(MoveConstraint(stack, cur_index, target_index), Tail(names), target_index + 1)

\* Whether the main loop handles bone b: a DEF_ bone with a counterpart and a switch
IsProcessed(bns, tags, b) ==
    /\ IsDef(b)
    /\ (FK_ \o DropFirst(b, Len(DEF_)) \in Range(bns) \/ MCH_ \o DropFirst(b, Len(DEF_)) \in Range(bns))
    /\ SwitchesForBone(SwitchOrder(bns, tags), tags, b) # <<>>

\* The main loop over the pose bones todo; acc = [cons, drivers, created]
RECURSIVE BuildLoop(_, _, _, _, _, _)
BuildLoop(acc, bns, tags, order, size, todo) ==
    IF todo = <<>> THEN acc
    ELSE LET b == Head(todo)
             base_name == DropFirst(b, Len(DEF_))
             has_fk == (FK_ \o base_name) \in Range(bns)
             has_mch == (MCH_ \o base_name) \in Range(bns)
             sfb == SwitchesForBone(order, tags, b)
         IN IF ~ IsDef(b) \/ (~ has_fk /\ ~ has_mch) \/ sfb = <<>>
            THEN BuildLoop(acc, bns, tags, order, size, Tail(todo))
            ELSE LET r == BuildSwitchesOfBone([cons |-> acc.cons[b], drivers |-> acc.drivers],
                                              b, has_fk, has_mch, sfb, sfb)
                     desired == DesiredNames(SortedDescending(sfb, size), has_fk, has_mch)
                     stack == Reorder(r.cons, desired, 1)
                 IN BuildLoop([cons |-> [acc.cons EXCEPT ![b] = stack],
                               drivers |-> r.drivers,
                               created |-> Append(acc.created, b)],
                              bns, tags, order, size, Tail(todo))

\* build_rebuild_switches: the constraints, the drivers and the returned list
build_rebuild_switches(bns, tags, cs, ds) ==
    BuildLoop([cons |-> cs, drivers |-> ds, created |-> <<>>], bns, tags,
              SwitchOrder(bns, tags), GroupSizes(bns, tags), bns)

(***************************************************************************)
(* switches.py: removal                                                    *)
(***************************************************************************)
\* "for c in list(constraints): if <condition>: remove, count, record the pair",
\* where hit[i] tells whether the condition holds of the i-th constraint.
\* acc = [stack, removed, pairs]
RECURSIVE RemoveLoop(_, _, _, _, _)
RemoveLoop(acc, b, original, hit, i) ==
    IF i > Len(original) THEN acc
    ELSE IF hit[i]
         THEN LET c == original[i]
                  at == IndexOf(acc.stack, c)
              IN RemoveLoop([stack |-> SubSeq(acc.stack, 1, at - 1) \o SubSeq(acc.stack, at + 1, Len(acc.stack)),
                             removed |-> acc.removed + 1,
                             pairs |-> Append(acc.pairs, <<b, c.name>>)],
                            b, original, hit, i + 1)
         ELSE RemoveLoop(acc, b, original, hit, i + 1)

RemoveConstraints(stack, b, hit) ==
    RemoveLoop([stack |-> stack, removed |-> 0, pairs |-> <<>>], b, stack, hit, 1)

\* Mutant: no driver is matched to a removed constraint
ExpectedPaths_none(pairs) == {}

\* the data paths expected for removed_pairs
ExpectedPaths(pairs) == {InfluencePath(pairs[i][1], pairs[i][2]) : i \in DOMAIN pairs}

\* Mutant: only the FK constraints are matched
IsCopyTransforms_fkOnly(stack) ==
    [i \in DOMAIN stack |->
        stack[i].type = "COPY_TRANSFORMS" /\ StartsWith(stack[i].name, CRS_FK_)]

IsCopyTransforms(stack) == [i \in DOMAIN stack |-> stack[i].type = "COPY_TRANSFORMS"]

\* Mutant: only the FK constraint of the switch is matched
IsOfSwitch_fkOnly(stack, switch_name) ==
    [i \in DOMAIN stack |->
        stack[i].type = "COPY_TRANSFORMS" /\ stack[i].name = CRS_FK_ \o switch_name]

\* c.type == "COPY_TRANSFORMS" and c.name.endswith(f'_{switch_name}')
IsOfSwitch(stack, switch_name) ==
    [i \in DOMAIN stack |->
        stack[i].type = "COPY_TRANSFORMS" /\ EndsWith(stack[i].name, <<"_">> \o switch_name)]

\* Mutant: the bones are not filtered by their DEF_ prefix
RECURSIVE CleanLoop_everyBone(_, _)
CleanLoop_everyBone(acc, todo) ==
    IF todo = <<>> THEN acc
    ELSE LET b == Head(todo)
             r == RemoveConstraints(acc.cons[b], b, IsCopyTransforms(acc.cons[b]))
         IN CleanLoop_everyBone([cons |-> [acc.cons EXCEPT ![b] = r.stack],
                                 processed |-> acc.processed + (IF StartsWith(b, DEF_) THEN 1 ELSE 0),
                                 removed |-> acc.removed + r.removed,
                                 pairs |-> acc.pairs \o r.pairs],
                                Tail(todo))

\* clean_rig, first loop; acc = [cons, processed, removed, pairs]
RECURSIVE CleanLoop(_, _)
CleanLoop(acc, todo) ==
    IF todo = <<>> THEN acc
    ELSE LET b == Head(todo) IN
         IF ~ StartsWith(b, DEF_) THEN CleanLoop(acc, Tail(todo))
         ELSE LET r == RemoveConstraints(acc.cons[b], b, IsCopyTransforms(acc.cons[b]))
              IN CleanLoop([cons |-> [acc.cons EXCEPT ![b] = r.stack],
                            processed |-> acc.processed + 1,
                            removed |-> acc.removed + r.removed,
                            pairs |-> acc.pairs \o r.pairs],
                           Tail(todo))

\* clean_rig: the constraints, the drivers and the returned dict
clean_rig(bns, cs, ds) ==
    LET a == CleanLoop([cons |-> cs, processed |-> 0, removed |-> 0, pairs |-> <<>>], bns)
        paths == ExpectedPaths(a.pairs)
    IN [cons |-> a.cons,
        drivers |-> RemoveDriversAt(ds, paths),
        ret |-> [bones_processed |-> a.processed,
                 constraints_removed |-> a.removed,
                 drivers_removed |-> CountDriversAt(ds, paths)]]

\* clear_switch_properties, CTRL_Settings present: the properties, the tags
\* and the returned dict.  The tag of CTRL_Settings is one of its keys.
clear_switch_properties(p, tags) ==
    LET keys == (DOMAIN p) \cup (IF CTRL_Settings \in DOMAIN tags THEN {<<"control_rig_tools">>} ELSE {})
        tags1 == DictDel(tags, CTRL_Settings)
    IN [props |-> EmptyDict,
        tag |-> [x \in {} |-> <<>>],
        ret |-> [switch_props_removed |-> Cardinality(keys),
                 bone_tags_removed |-> Cardinality(DOMAIN tags1)]]

\* Mutant: the constraints are removed whatever their type
remove_bone_from_switch_anyType(tags, cs, ds, bone_name) ==
    LET r == RemoveConstraints(cs[bone_name], bone_name, [i \in DOMAIN cs[bone_name] |-> TRUE])
        paths == ExpectedPaths(r.pairs)
    IN [tag |-> DictDel(tags, bone_name),
        cons |-> [cs EXCEPT ![bone_name] = r.stack],
        drivers |-> RemoveDriversAt(ds, paths),
        ret |-> [bone |-> bone_name,
                 constraints_removed |-> r.removed,
                 drivers_removed |-> CountDriversAt(ds, paths)]]

\* remove_bone_from_switch, the bone present
remove_bone_from_switch(tags, cs, ds, bone_name) ==
    LET r == RemoveConstraints(cs[bone_name], bone_name, IsCopyTransforms(cs[bone_name]))
        paths == ExpectedPaths(r.pairs)
    IN [tag |-> DictDel(tags, bone_name),
        cons |-> [cs EXCEPT ![bone_name] = r.stack],
        drivers |-> RemoveDriversAt(ds, paths),
        ret |-> [bone |-> bone_name,
                 constraints_removed |-> r.removed,
                 drivers_removed |-> CountDriversAt(ds, paths)]]

\* the tag of one bone after "remove only this switch from the bone's tag"
Untag(tags, b, switch_name) ==
    LET existing == _parse_bone_switches(tags, b)
        left == RemoveFirst(existing, switch_name)
    IN IF ~ Contains(existing, switch_name) THEN tags
       ELSE IF left # <<>> THEN DictSet(tags, b, Join(left, ";"))
       ELSE DictDel(tags, b)

\* remove_triplet_from_switch, first loop; acc = [tag, cons, bones_removed, removed, pairs]
RECURSIVE TripletLoop(_, _, _, _)
TripletLoop(acc, base_name, switch_name, todo) ==
    IF todo = <<>> THEN acc
    ELSE LET b == Head(todo) IN
         IF derive_base_name_from_last_underscore(b) # base_name
            \/ ~ bone_has_switch(acc.tag, b, switch_name)
         THEN TripletLoop(acc, base_name, switch_name, Tail(todo))
         ELSE LET r == RemoveConstraints(acc.cons[b], b, IsOfSwitch(acc.cons[b], switch_name))
              IN TripletLoop([tag |-> Untag(acc.tag, b, switch_name),
                              cons |-> [acc.cons EXCEPT ![b] = r.stack],
                              bones_removed |-> acc.bones_removed + 1,
                              removed |-> acc.removed + r.removed,
                              pairs |-> acc.pairs \o r.pairs],
                             base_name, switch_name, Tail(todo))

remove_triplet_from_switch(bns, tags, cs, ds, base_name, switch_name) ==
    LET a == TripletLoop([tag |-> tags, cons |-> cs, bones_removed |-> 0, removed |-> 0,
                          pairs |-> <<>>], base_name, switch_name, bns)
        paths == ExpectedPaths(a.pairs)
    IN [tag |-> a.tag,
        cons |-> a.cons,
        drivers |-> RemoveDriversAt(ds, paths),
        ret |-> [base |-> base_name,
                 bones_removed |-> a.bones_removed,
                 constraints_removed |-> a.removed,
                 drivers_removed |-> CountDriversAt(ds, paths)]]

\* set_switch_enabled; acc = [cons, toggled]
RECURSIVE EnableLoop(_, _, _, _)
EnableLoop(acc, switch_name, enabled, todo) ==
    IF todo = <<>> THEN acc
    ELSE LET b == Head(todo) IN
         IF ~ StartsWith(b, DEF_) THEN EnableLoop(acc, switch_name, enabled, Tail(todo))
         ELSE LET hit == IsOfSwitch(acc.cons[b], switch_name)
                  stack == [i \in DOMAIN acc.cons[b] |->
                               IF hit[i] THEN [acc.cons[b][i] EXCEPT !.mute = ~ enabled]
                               ELSE acc.cons[b][i]]
              IN EnableLoop([cons |-> [acc.cons EXCEPT ![b] = stack],
                             toggled |-> acc.toggled + Cardinality({i \in DOMAIN hit : hit[i]})],
                            switch_name, enabled, Tail(todo))

set_switch_enabled(bns, cs, switch_name, enabled) ==
    LET a == EnableLoop([cons |-> cs, toggled |-> 0], switch_name, enabled, bns)
    IN [cons |-> a.cons, ret |-> [constraints_toggled |-> a.toggled]]

(***************************************************************************)
(* helpers.py and the proxy update callback                                *)
(***************************************************************************)
\* _proxy_value_update: the properties of CTRL_Settings after the callback ran
\* for a proxy named switch_name that now holds value.  Any failure is swallowed.
_proxy_value_update(p, bns, obj, switch_name, value) ==
    IF obj # "ARMATURE" \/ CTRL_Settings \notin Range(bns) THEN p
    ELSE DictSet(p, switch_name, value)

\* ensure_proxy_for_switch: the proxy collection and, through the update
\* callback that every assignment to p.value fires, the properties
ensure_proxy_for_switch(px, p, bns, obj, switch_name, initial_value) ==
    LET found == {i \in DOMAIN px : px[i].switch_name = switch_name}
    IN IF found # {}
       THEN LET i == CHOOSE k \in found : \A j \in found : k <= j
            IN [proxies |-> [px EXCEPT ![i].value = initial_value],
                props |-> _proxy_value_update(p, bns, obj, switch_name, initial_value)]
       ELSE [proxies |-> Append(px, [switch_name |-> switch_name, value |-> initial_value]),
             props |-> _proxy_value_update(p, bns, obj, switch_name, initial_value)]

(***************************************************************************)
(* operators/__init__.py                                                   *)
(***************************************************************************)
Cancelled(op) == [op |-> op, status |-> "CANCELLED"]

Finished(op, arg, ret) == [op |-> op, status |-> "FINISHED", arg |-> arg, ret |-> ret]

\* get_active_armature raises
NoArmature(obj) == obj # "ARMATURE"

\* Mutant: only the empty name is refused
IsBlank_emptyOnly(name) == name = <<>>

\* not str(self.name).strip()
IsBlank(name) == Strip(name) = <<>>

\* Add Switch, first loop: the selected bones; acc = [tag, assigned_names]
RECURSIVE AddSelected(_, _, _)
AddSelected(acc, name, sel) ==
    IF sel = <<>> THEN acc
    ELSE AddSelected([tag |-> _add_switch_to_bone(acc.tag, Head(sel), name),
                      assigned_names |-> acc.assigned_names \cup {Head(sel)}],
                     name, Tail(sel))

\* Add Switch, second loop: the other bones that share a derived base name with
\* a selected bone.  _switches is not a name of the module, so the call raises
\* NameError and the except branch overwrites the tag with the bare name.
RECURSIVE AddShared(_, _, _, _)
AddShared(acc, name, sel, todo) ==
    IF todo = <<>> THEN acc
    ELSE LET pb == Head(todo)
             shares == \E i \in DOMAIN sel :
                          derive_base_name_from_last_underscore(pb)
                              = derive_base_name_from_last_underscore(sel[i])
         IN IF pb \notin acc.assigned_names /\ shares
            THEN AddShared([tag |-> DictSet(acc.tag, pb, name),
                            assigned_names |-> acc.assigned_names \cup {pb}],
                           name, sel, Tail(todo))
            ELSE AddShared(acc, name, sel, Tail(todo))

\* CRL_OT_add_switch.execute
AddSwitch(obj, name, mode, sel) ==
    IF NoArmature(obj) \/ IsBlank(name) \/ CTRL_Settings \notin BoneNames
    THEN /\ last' = Cancelled("add_switch")
         /\ UNCHANGED <<bones, props, tag, cons, drivers, proxies>>
    ELSE LET props1 == add_switch_property(props, name)
             a == IF mode = "POSE" /\ sel # <<>>
                  THEN AddShared(AddSelected([tag |-> tag, assigned_names |-> {}], name, sel),
                                 name, sel, bones)
                  ELSE [tag |-> tag, assigned_names |-> {}]
             e == ensure_proxy_for_switch(proxies, props1, bones, obj, name, 0)
         IN /\ tag' = a.tag
            /\ props' = e.props
            /\ proxies' = e.proxies
            /\ last' = Finished("add_switch", [name |-> name, sel |-> IF mode = "POSE" THEN sel ELSE <<>>],
                                Cardinality(a.assigned_names))
            /\ UNCHANGED <<bones, cons, drivers>>

\* Assign, inner loop: the bones that share the selected bone's derived base name
RECURSIVE AssignShared(_, _, _, _)
AssignShared(acc, switch_name, base, todo) ==
    IF todo = <<>> THEN acc
    ELSE LET pb == Head(todo)
         IN IF pb \notin acc.assigned_names /\ derive_base_name_from_last_underscore(pb) = base
            THEN AssignShared([tag |-> _add_switch_to_bone(acc.tag, pb, switch_name),
                               assigned_names |-> acc.assigned_names \cup {pb}],
                              switch_name, base, Tail(todo))
            ELSE AssignShared(acc, switch_name, base, Tail(todo))

\* Assign, outer loop over the selected bones
RECURSIVE AssignSelected(_, _, _, _)
AssignSelected(acc, switch_name, bns, sel) ==
    IF sel = <<>> THEN acc
    ELSE LET pose_bone == Head(sel)
             a1 == [tag |-> _add_switch_to_bone(acc.tag, pose_bone, switch_name),
                    assigned_names |-> acc.assigned_names \cup {pose_bone}]
             a2 == AssignShared(a1, switch_name,
                                derive_base_name_from_last_underscore(pose_bone), bns)
         IN AssignSelected(a2, switch_name, bns, Tail(sel))

\* CRL_OT_assign_switch.execute: metadata only ("do not build constraints here")
AssignSwitch(obj, switch_name, mode, sel) ==
    IF NoArmature(obj) \/ mode # "POSE" \/ sel = <<>>
    THEN /\ last' = Cancelled("assign_switch")
         /\ UNCHANGED <<bones, props, tag, cons, drivers, proxies>>
    ELSE LET a == AssignSelected([tag |-> tag, assigned_names |-> {}], switch_name, bones, sel)
         IN /\ tag' = a.tag
            /\ last' = Finished("assign_switch", [switch_name |-> switch_name, sel |-> sel],
                                [assigned |-> Cardinality(a.assigned_names), processed |-> 0])
            /\ UNCHANGED <<bones, props, cons, drivers, proxies>>

\* CRL_OT_build_switches.execute
BuildSwitches(obj) ==
    IF NoArmature(obj)
    THEN /\ last' = Cancelled("build_switches")
         /\ UNCHANGED <<bones, props, tag, cons, drivers, proxies>>
    ELSE LET r == build_rebuild_switches(bones, tag, cons, drivers)
         IN /\ cons' = r.cons
            /\ drivers' = r.drivers
            /\ last' = Finished("build_switches", <<>>, r.created)
            /\ UNCHANGED <<bones, props, tag, proxies>>

\* Mutant: every DEF_ bone is tagged, with or without a counterpart
RECURSIVE CreateLoop_everyDef(_, _, _, _)
CreateLoop_everyDef(acc, name, bns, todo) ==
    IF todo = <<>> THEN acc
    ELSE LET pb == Head(todo)
         IN IF StartsWith(pb, DEF_)
            THEN CreateLoop_everyDef([tag |-> _add_switch_to_bone(acc.tag, pb, name),
                                      assigned |-> acc.assigned + 1], name, bns, Tail(todo))
            ELSE CreateLoop_everyDef(acc, name, bns, Tail(todo))

\* Create Rig Switch, the loop over the pose bones; acc = [tag, assigned]
RECURSIVE CreateLoop(_, _, _, _)
CreateLoop(acc, name, bns, todo) ==
    IF todo = <<>> THEN acc
    ELSE LET pb == Head(todo)
             base == DropFirst(pb, Len(DEF_))
         IN IF StartsWith(pb, DEF_) /\ ((FK_ \o base) \in Range(bns) \/ (MCH_ \o base) \in Range(bns))
            THEN CreateLoop([tag |-> _add_switch_to_bone(acc.tag, pb, name),
                             assigned |-> acc.assigned + 1], name, bns, Tail(todo))
            ELSE CreateLoop(acc, name, bns, Tail(todo))

\* CRL_OT_create_rig_switch.execute
CreateRigSwitch(obj, name) ==
    IF NoArmature(obj) \/ IsBlank(name) \/ CTRL_Settings \notin BoneNames
    THEN /\ last' = Cancelled("create_rig_switch")
         /\ UNCHANGED <<bones, props, tag, cons, drivers, proxies>>
    ELSE LET props1 == add_switch_property(props, name)
             a == CreateLoop([tag |-> tag, assigned |-> 0], name, bones, bones)
             e == ensure_proxy_for_switch(proxies, props1, bones, obj, name, 0)
         IN /\ tag' = a.tag
            /\ props' = e.props
            /\ proxies' = e.proxies
            /\ last' = Finished("create_rig_switch", [name |-> name], a.assigned)
            /\ UNCHANGED <<bones, cons, drivers>>

\* CRL_OT_remove_triplet_from_switch.execute
RemoveTriplet(obj, base_name, switch_name) ==
    IF NoArmature(obj)
    THEN /\ last' = Cancelled("remove_triplet_from_switch")
         /\ UNCHANGED <<bones, props, tag, cons, drivers, proxies>>
    ELSE LET r == remove_triplet_from_switch(bones, tag, cons, drivers, base_name, switch_name)
         IN /\ tag' = r.tag
            /\ cons' = r.cons
            /\ drivers' = r.drivers
            /\ last' = Finished("remove_triplet_from_switch",
                                [base_name |-> base_name, switch_name |-> switch_name], r.ret)
            /\ UNCHANGED <<bones, props, proxies>>

\* CRL_OT_clean_rig.execute
CleanRig(obj) ==
    IF NoArmature(obj)
    THEN /\ last' = Cancelled("clean_rig")
         /\ UNCHANGED <<bones, props, tag, cons, drivers, proxies>>
    ELSE LET r == clean_rig(bones, cons, drivers)
         IN /\ cons' = r.cons
            /\ drivers' = r.drivers
            /\ last' = Finished("clean_rig", <<>>, r.ret)
            /\ UNCHANGED <<bones, props, tag, proxies>>

\* CRL_OT_clear_switch_properties.execute: clear_switch_properties, then the
\* proxy collection emptied
ClearSwitchProperties(obj) ==
    IF NoArmature(obj) \/ CTRL_Settings \notin BoneNames
    THEN /\ last' = Cancelled("clear_switch_properties")
         /\ UNCHANGED <<bones, props, tag, cons, drivers, proxies>>
    ELSE LET r == clear_switch_properties(props, tag)
         IN /\ props' = r.props
            /\ tag' = r.tag
            /\ proxies' = <<>>
            /\ last' = Finished("clear_switch_properties", <<>>, r.ret)
            /\ UNCHANGED <<bones, cons, drivers>>

\* switches.remove_bone_from_switch called on the armature
RemoveBone(bone_name) ==
    IF bone_name \notin BoneNames
    THEN /\ last' = [op |-> "remove_bone_from_switch", status |-> "ValueError"]
         /\ UNCHANGED <<bones, props, tag, cons, drivers, proxies>>
    ELSE LET r == remove_bone_from_switch(tag, cons, drivers, bone_name)
         IN /\ tag' = r.tag
            /\ cons' = r.cons
            /\ drivers' = r.drivers
            /\ last' = Finished("remove_bone_from_switch", [bone_name |-> bone_name], r.ret)
            /\ UNCHANGED <<bones, props, proxies>>

\* switches.set_switch_enabled called on the armature
SetSwitchEnabled(switch_name, enabled) ==
    LET r == set_switch_enabled(bones, cons, switch_name, enabled)
    IN /\ cons' = r.cons
       /\ last' = Finished("set_switch_enabled",
                           [switch_name |-> switch_name, enabled |-> enabled], r.ret)
       /\ UNCHANGED <<bones, props, tag, drivers, proxies>>

\* Mutant: the property stores whatever it is given
ClampValue_unbounded(v) == v

\* FloatProperty(min=0.0, max=1.0): the host clamps an assigned value to the range
ClampValue(v) == IF v < 0 THEN 0 ELSE IF v > ValueSteps THEN ValueSteps ELSE v

\* The i-th proxy's value is set to v (the slider, or a script): the host stores
\* the clamped value and calls _proxy_value_update
SlideProxy(obj, i, v) ==
    /\ i \in DOMAIN proxies
    /\ proxies' = [proxies EXCEPT ![i].value = ClampValue(v)]
    /\ props' = _proxy_value_update(props, bones, obj, proxies[i].switch_name, ClampValue(v))
    /\ last' = Finished("proxy_value_update", [i |-> i, value |-> v], <<>>)
    /\ UNCHANGED <<bones, tag, cons, drivers>>

(***************************************************************************)
(* The state machine                                                       *)
(***************************************************************************)
\* A rig as the add-on finds it: no switches, no tags, no constraints, no drivers
Init ==
    /\ bones \in Armatures
    /\ props = EmptyDict
    /\ tag = [x \in {} |-> <<>>]
    /\ cons = [b \in Range(bones) |-> <<>>]
    /\ drivers = EmptyBag
    /\ proxies = <<>>
    /\ last = [op |-> "none", status |-> "FINISHED"]
    /\ ops = 0

NameArgs == SwitchNames \cup {<<" ">>}

Tick == ops < MaxOps /\ ops' = ops + 1

\* The operators and remove_bone_from_switch, run with an armature active
Next ==
    \/ Tick /\ \E name \in NameArgs, mode \in Modes, sel \in Selections :
                   AddSwitch("ARMATURE", name, mode, sel)
    \/ Tick /\ \E s \in SwitchNames, mode \in Modes, sel \in Selections :
                   AssignSwitch("ARMATURE", s, mode, sel)
    \/ Tick /\ BuildSwitches("ARMATURE")
    \/ Tick /\ \E name \in NameArgs : CreateRigSwitch("ARMATURE", name)
    \/ Tick /\ \E base \in BaseNames, s \in SwitchNames : RemoveTriplet("ARMATURE", base, s)
    \/ Tick /\ CleanRig("ARMATURE")
    \/ Tick /\ ClearSwitchProperties("ARMATURE")
    \/ Tick /\ \E b \in BoneArgs : RemoveBone(b)

Spec == Init /\ [][Next]_vars

(***************************************************************************)
(* A second specification: rigs that come with constraints of their own,   *)
(* a rig without CTRL_Settings, operators run with or without an armature  *)
(* active, set_switch_enabled and the proxy sliders.                       *)
(***************************************************************************)
DEF_x == <<"DEF", "_", "x">>

\* The first rig has a DEF_ bone without counterpart (x); the second one has
\* no CTRL_Settings bone.
Rigs == {<<CTRL_Settings, DEF_a_L, FK_a_L, MCH_a_L, DEF_c, FK_c, DEF_x>>, <<DEF_c, FK_c, DEF_x>>}

\* A constraint the rig's author made
RigConstraint(type, name, subtarget) ==
    [type |-> type, name |-> name, subtarget |-> subtarget,
     mute |-> FALSE, owner_space |-> "WORLD", target_space |-> "WORLD"]

\* The constraints the rigs come with: two on a DEF_ bone, neither a
\* COPY_TRANSFORMS, and a COPY_TRANSFORMS on an FK_ bone
RigConstraints(b) ==
    IF b = DEF_a_L THEN <<RigConstraint("IK", <<"IK">>, MCH_a_L),
                          RigConstraint("LIMIT_ROTATION", <<"Limit">>, <<>>)>>
    ELSE IF b = FK_c THEN <<RigConstraint("COPY_TRANSFORMS", <<"Copy", "_", "L">>, DEF_c)>>
    ELSE <<>>

\* context.selected_pose_bones on these rigs
RigSelections == {<<>>, <<CTRL_Settings, DEF_a_L>>, <<FK_c, DEF_x>>}

\* base_name arguments of remove_triplet_from_switch on these rigs
RigBaseNames == {<<"c">>}

\* values given to a proxy's value property
SliderInputs == {0 - 1, 1, ValueSteps + 1}

InitRig ==
    /\ bones \in Rigs
    /\ props = EmptyDict
    /\ tag = [x \in {} |-> <<>>]
    /\ cons = [b \in Range(bones) |-> RigConstraints(b)]
    /\ drivers = EmptyBag
    /\ proxies = <<>>
    /\ last = [op |-> "none", status |-> "FINISHED"]
    /\ ops = 0

\* the selections that name bones of the rig
Selectable == {sel \in RigSelections : Range(sel) \subseteq BoneNames}

NextRig ==
    \/ Tick /\ \E obj \in ObjectTypes, name \in NameArgs, mode \in Modes, sel \in Selectable :
                   AddSwitch(obj, name, mode, sel)
    \/ Tick /\ \E obj \in ObjectTypes, s \in SwitchNames, mode \in Modes, sel \in Selectable :
                   AssignSwitch(obj, s, mode, sel)
    \/ Tick /\ \E obj \in ObjectTypes : BuildSwitches(obj)
    \/ Tick /\ \E obj \in ObjectTypes, name \in NameArgs : CreateRigSwitch(obj, name)
    \/ Tick /\ \E obj \in ObjectTypes, base \in RigBaseNames, s \in SwitchNames :
                   RemoveTriplet(obj, base, s)
    \/ Tick /\ \E obj \in ObjectTypes : CleanRig(obj)
    \/ Tick /\ \E obj \in ObjectTypes : ClearSwitchProperties(obj)
    \/ Tick /\ \E s \in SwitchNames, enabled \in BOOLEAN : SetSwitchEnabled(s, enabled)
    \/ Tick /\ \E obj \in ObjectTypes, i \in DOMAIN proxies, v \in SliderInputs :
                   SlideProxy(obj, i, v)

SpecRig == InitRig /\ [][NextRig]_vars

(***************************************************************************)
(* A third specification: a rig with two limbs of one side, whose bases    *)
(* contain an underscore, and switch names with a space or a semicolon.    *)
(***************************************************************************)
DEF_b_L == <<"DEF", "_", "b", "_", "L">>

FK_b_L == <<"FK", "_", "b", "_", "L">>

SideRigs == {<<CTRL_Settings, DEF_a_L, FK_a_L, DEF_b_L, FK_b_L>>}

\* names that are non-empty after stripping: plain, with a leading space,
\* with a semicolon inside
TypedNames == {<<"L">>, <<" ", "L">>, <<"a", ";", "b">>}

\* context.selected_pose_bones on this rig
SideSelections == {<<DEF_a_L>>, <<FK_b_L>>}

\* base_name arguments of remove_triplet_from_switch on this rig
SideBaseNames == {<<"L">>, <<"a", "_", "L">>}

\* bone_name arguments of remove_bone_from_switch: a bone of the rig and a
\* name that no bone has
SideBoneArgs == {DEF_a_L, DEF_x}

\* The rig comes with the constraints its author made on DEF_a_L
InitSide ==
    /\ bones \in SideRigs
    /\ props = EmptyDict
    /\ tag = [x \in {} |-> <<>>]
    /\ cons = [b \in Range(bones) |-> RigConstraints(b)]
    /\ drivers = EmptyBag
    /\ proxies = <<>>
    /\ last = [op |-> "none", status |-> "FINISHED"]
    /\ ops = 0

\* Assign takes its switch_name unchecked, the other operators their name
\* after the blank test
NextSide ==
    \/ Tick /\ \E name \in TypedNames, sel \in SideSelections :
                   AddSwitch("ARMATURE", name, "POSE", sel)
    \/ Tick /\ \E s \in TypedNames \cup {<<" ">>}, sel \in SideSelections :
                   AssignSwitch("ARMATURE", s, "POSE", sel)
    \/ Tick /\ BuildSwitches("ARMATURE")
    \/ Tick /\ \E base \in SideBaseNames, s \in TypedNames :
                   RemoveTriplet("ARMATURE", base, s)
    \/ Tick /\ \E b \in SideBoneArgs : RemoveBone(b)

SpecSide == InitSide /\ [][NextSide]_vars

(***************************************************************************)
(* Vocabulary of the properties                                            *)
(***************************************************************************)
DefBones == {b \in BoneNames : IsDef(b)}

HasFK(b) == (FK_ \o DropFirst(b, Len(DEF_))) \in BoneNames

HasMCH(b) == (MCH_ \o DropFirst(b, Len(DEF_))) \in BoneNames

IsCRSName(n) == StartsWith(n, CRS_FK_) \/ StartsWith(n, CRS_MCH_)

\* how many constraints of the stack carry the name
NamedCount(stack, n) == Cardinality({i \in DOMAIN stack : stack[i].name = n})

\* how many drivers of the bag sit on the influence of constraint n of bone b
DriverCount(bag, b, n) == CountDriversAt(bag, {InfluencePath(b, n)})

\* the operator op has just finished
Ran(op) == last.op = op /\ last.status = "FINISHED"

\* this step is a finished run of op
Runs(op) == ops' = ops + 1 /\ last'.op = op /\ last'.status = "FINISHED"

\* The host's evaluation of a driver expression, the variables bound by env
RECURSIVE EvalExpr(_, _)
EvalExpr(e, env) ==
    CASE e.k = "name" -> env[e.id]
      [] e.k = "num" -> e.v * ValueSteps
      [] e.k = "ifelse" -> IF \A j \in DOMAIN e.test : env[e.test[j]] = 0
                           THEN EvalExpr(e.then, env) ELSE EvalExpr(e.else, env)
      [] e.k = "sub" -> EvalExpr(e.l, env) - EvalExpr(e.r, env)

\* the switch a variable's data path reads
SwitchOfPath(path) == SubSeq(path, 2, Len(path) - 1)

\* The value of driver d when the switches hold val
EvalDriver(d, val) ==
    LET names == {d.variables[i].name : i \in DOMAIN d.variables}
        env == [n \in names |->
                   val[SwitchOfPath(d.variables[CHOOSE i \in DOMAIN d.variables :
                                                    d.variables[i].name = n].data_path)]]
    IN EvalExpr(d.expression, env)

Valuations == [SwitchNames -> Values]

\* The state build_rebuild_switches leaves when run in the current state
Built == build_rebuild_switches(bones, tag, cons, drivers)

(***************************************************************************)
(* C1. Idempotent rebuild: from every state, a second build_rebuild_switches *)
(* right after a first one leaves the constraints of every bone (names and *)
(* order) and the drivers as the first left them and returns the same      *)
(* list; every CRS_ constraint of a DEF_ bone is then there once, with     *)
(* exactly one driver.                                                     *)
(***************************************************************************)
C1_BuildIdempotent ==
    LET twice == build_rebuild_switches(bones, tag, Built.cons, Built.drivers)
    IN /\ twice.cons = Built.cons
       /\ twice.drivers = Built.drivers
       /\ twice.created = Built.created
       /\ \A b \in DefBones : \A i \in DOMAIN twice.cons[b] :
              IsCRSName(twice.cons[b][i].name) =>
                  /\ NamedCount(twice.cons[b], twice.cons[b][i].name) = 1
                  /\ DriverCount(twice.drivers, b, twice.cons[b][i].name) = 1

\* A build has run on a bone with two switches and a build now changes nothing
C1_Witness ==
    /\ Ran("build_switches")
    /\ Len(cons[DEF_a_L]) = 4
    /\ Built.cons = cons /\ Built.drivers = drivers /\ Built.created = last.ret
    /\ last.ret # <<>>

(***************************************************************************)
(* C2. Unique by name: in every reachable state a DEF_ bone has at most    *)
(* one constraint named CRS_FK_<s> and at most one named CRS_MCH_<s> for   *)
(* each switch s, and at most one driver on the influence of each.         *)
(***************************************************************************)
C2_UniqueByName ==
    \A b \in DefBones : \A i \in DOMAIN cons[b] :
        IsCRSName(cons[b][i].name) =>
            /\ NamedCount(cons[b], cons[b][i].name) <= 1
            /\ DriverCount(drivers, b, cons[b][i].name) <= 1

\* Two builds in a row have run on tagged bones (the second one returned the
\* bones the first one had given their constraints)
C2_Witness ==
    /\ Ran("build_switches")
    /\ ops >= 3
    /\ \E s \in SwitchNames :
           /\ NamedCount(cons[DEF_a_L], CRS_FK_ \o s) = 1
           /\ NamedCount(cons[DEF_c], CRS_FK_ \o s) = 1
           /\ DriverCount(drivers, DEF_c, CRS_FK_ \o s) = 1

(***************************************************************************)
(* C3. Paired create/remove: in every reachable state each COPY_TRANSFORMS *)
(* constraint of a DEF_ bone has a driver on its influence, and each       *)
(* driver sits on the influence of a COPY_TRANSFORMS constraint that a     *)
(* DEF_ bone has.                                                          *)
(***************************************************************************)
C3_Paired ==
    /\ \A b \in DefBones : \A i \in DOMAIN cons[b] :
           cons[b][i].type = "COPY_TRANSFORMS" => DriverCount(drivers, b, cons[b][i].name) >= 1
    /\ \A d \in DOMAIN drivers :
           \E b \in DefBones : \E i \in DOMAIN cons[b] :
               /\ cons[b][i].type = "COPY_TRANSFORMS"
               /\ d.data_path = InfluencePath(b, cons[b][i].name)

\* A removal has taken constraints and drivers away and left others in place
C3_Witness ==
    /\ Ran("remove_triplet_from_switch")
    /\ last.ret.constraints_removed > 0
    /\ last.ret.drivers_removed = last.ret.constraints_removed
    /\ drivers # EmptyBag

(***************************************************************************)
(* C4. Driver values: after build_rebuild_switches, for every DEF_ bone b  *)
(* and switch s assigned to b, in every valuation of the switches the      *)
(* driver of CRS_FK_<s> yields the value of s if every switch of b ahead   *)
(* of s (fewer tagged DEF_ bones; on a tie, met first) is 0, and 0         *)
(* otherwise; the driver of CRS_MCH_<s> yields 1 minus that.               *)
(***************************************************************************)
\* the number of DEF_ bones tagged with s
NumTagged(s) == Cardinality({b \in DefBones : bone_has_switch(tag, b, s)})

\* where the scan of the DEF_ bones and their tags first meets s
FirstMet(s) ==
    LET all == TaggedSwitches(bones, tag)
    IN CHOOSE i \in DOMAIN all : all[i] = s /\ \A j \in 1..(i - 1) : all[j] # s

Ahead(t, s) ==
    \/ NumTagged(t) < NumTagged(s)
    \/ NumTagged(t) = NumTagged(s) /\ FirstMet(t) < FirstMet(s)

\* the switches of bone b that are ahead of s
AheadOf(b, s) == {t \in SwitchNames : bone_has_switch(tag, b, t) /\ Ahead(t, s)}

\* the influence CRS_FK_<s> is to have, given the switches ahead of s
ExpectedFK(ahead, s, val) == IF \A t \in ahead : val[t] = 0 THEN val[s] ELSE 0

C4_DriverValues ==
    LET after == Built.drivers IN
    \A b \in {x \in DefBones : HasFK(x) \/ HasMCH(x)} :
        \A s \in {x \in SwitchNames : bone_has_switch(tag, b, x)} :
            LET ahead == AheadOf(b, s)
                fk == DriversAtPath(after, InfluencePath(b, CRS_FK_ \o s))
                mch == DriversAtPath(after, InfluencePath(b, CRS_MCH_ \o s))
            IN /\ HasFK(b) =>
                   /\ DriverCount(after, b, CRS_FK_ \o s) = 1
                   /\ \A d \in fk : \A val \in Valuations :
                          EvalDriver(d, val) = ExpectedFK(ahead, s, val)
               /\ HasMCH(b) =>
                   /\ DriverCount(after, b, CRS_MCH_ \o s) = 1
                   /\ \A d \in mch : \A val \in Valuations :
                          EvalDriver(d, val) = ValueSteps - ExpectedFK(ahead, s, val)

\* A build has run with two switches on a bone, the one met later ahead
C4_Witness ==
    /\ Ran("build_switches")
    /\ Built.drivers = drivers
    /\ \E s, t \in SwitchNames :
           /\ bone_has_switch(tag, DEF_a_L, s) /\ bone_has_switch(tag, DEF_a_L, t)
           /\ FirstMet(s) < FirstMet(t) /\ NumTagged(t) < NumTagged(s)
           /\ DriverCount(drivers, DEF_a_L, CRS_MCH_ \o s) = 1

(***************************************************************************)
(* C5. remove_triplet_from_switch(base, s) removes the constraints and     *)
(* drivers of s: every bone it unassigns from s (derived base name base,   *)
(* tagged with s) has afterwards no constraint named CRS_FK_<s> or         *)
(* CRS_MCH_<s>, and no driver is left on the influence of such a           *)
(* constraint of that bone.                                                *)
(***************************************************************************)
C5_TripletRemovesItsConstraints ==
    [][Runs("remove_triplet_from_switch") =>
          \A b \in BoneNames :
              (/\ derive_base_name_from_last_underscore(b) = last'.arg.base_name
               /\ bone_has_switch(tag, b, last'.arg.switch_name)) =>
                  \A n \in {CRS_FK_ \o last'.arg.switch_name, CRS_MCH_ \o last'.arg.switch_name} :
                      /\ NamedCount(cons'[b], n) = 0
                      /\ DriverCount(drivers', b, n) = 0]_vars

\* A built triplet has been removed from its switch
C5_Witness ==
    /\ Ran("remove_triplet_from_switch")
    /\ last.ret.bones_removed = 3
    /\ last.ret.constraints_removed = 2
    /\ last.ret.drivers_removed = 2

(***************************************************************************)
(* C6. After clear_switch_properties no DEF_ bone retains a CRS_FK_ or     *)
(* CRS_MCH_ constraint of a removed switch and no driver reads a removed   *)
(* switch property.  (Every switch is removed by it.)                      *)
(***************************************************************************)
C6_ClearRemovesConstraints ==
    Ran("clear_switch_properties") =>
        /\ \A b \in DefBones : \A i \in DOMAIN cons[b] : ~ IsCRSName(cons[b][i].name)
        /\ \A d \in DOMAIN drivers : \A i \in DOMAIN d.variables :
               SwitchOfPath(d.variables[i].data_path) \in DOMAIN props

(***************************************************************************)
(* C7. Many-to-many under the assigning operators: when Add Switch, Assign *)
(* or Create Rig Switch finishes, every bone still lists every switch it   *)
(* listed before.                                                          *)
(***************************************************************************)
C7_AssignKeepsSwitches ==
    [][(Runs("add_switch") \/ Runs("assign_switch") \/ Runs("create_rig_switch")) =>
          \A b \in BoneNames : \A t \in SwitchNames :
              bone_has_switch(tag, b, t) => bone_has_switch(tag', b, t)]_vars

(***************************************************************************)
(* C8. When Assign Selected Bones to Switch finishes, every DEF_ bone      *)
(* assigned to the switch that has an FK_ or MCH_ counterpart carries the  *)
(* CRS_FK_<switch> / CRS_MCH_<switch> constraint for each counterpart,     *)
(* with a driver on its influence.                                         *)
(***************************************************************************)
C8_AssignBuilds ==
    Ran("assign_switch") =>
        \A b \in DefBones :
            bone_has_switch(tag, b, last.arg.switch_name) =>
                /\ HasFK(b) =>
                       /\ NamedCount(cons[b], CRS_FK_ \o last.arg.switch_name) = 1
                       /\ DriverCount(drivers, b, CRS_FK_ \o last.arg.switch_name) = 1
                /\ HasMCH(b) =>
                       /\ NamedCount(cons[b], CRS_MCH_ \o last.arg.switch_name) = 1
                       /\ DriverCount(drivers, b, CRS_MCH_ \o last.arg.switch_name) = 1

(***************************************************************************)
(* C9. remove_triplet_from_switch(base, s) touches only s: the bones keep  *)
(* every other switch of their tags, a bone not tagged with s keeps its    *)
(* tag and constraints, and every constraint CRS_FK_<t> / CRS_MCH_<t> of   *)
(* another switch t is still there afterwards with its driver.             *)
(***************************************************************************)
C9_TripletTouchesOnlyItsSwitch ==
    [][Runs("remove_triplet_from_switch") =>
          LET s == last'.arg.switch_name IN
          /\ \A b \in BoneNames : \A t \in SwitchNames \ {s} :
                 bone_has_switch(tag, b, t) => bone_has_switch(tag', b, t)
          /\ \A b \in BoneNames :
                 ~ bone_has_switch(tag, b, s) =>
                     /\ cons'[b] = cons[b]
                     /\ (b \in DOMAIN tag) = (b \in DOMAIN tag')
                     /\ b \in DOMAIN tag => tag'[b] = tag[b]
          /\ \A b \in DefBones : \A t \in SwitchNames \ {s} :
                 \A n \in {CRS_FK_ \o t, CRS_MCH_ \o t} :
                     /\ NamedCount(cons'[b], n) = NamedCount(cons[b], n)
                     /\ DriverCount(drivers', b, n) = DriverCount(drivers, b, n)]_vars

(***************************************************************************)
(* C10. After clean_rig no DEF_ bone has a COPY_TRANSFORMS constraint and  *)
(* no driver is left on the influence of a constraint it removed;          *)
(* constraints_removed and drivers_removed are the numbers of constraints  *)
(* and drivers that went away and bones_processed is the number of DEF_    *)
(* bones.                                                                  *)
(***************************************************************************)
\* the number of constraints on the bones todo
RECURSIVE TotalConstraints(_, _)
TotalConstraints(cs, todo) ==
    IF todo = <<>> THEN 0 ELSE Len(cs[Head(todo)]) + TotalConstraints(cs, Tail(todo))

C10_CleanRig ==
    [][Runs("clean_rig") =>
          /\ \A b \in DefBones : \A i \in DOMAIN cons'[b] : cons'[b][i].type # "COPY_TRANSFORMS"
          /\ \A b \in DefBones : \A i \in DOMAIN cons[b] :
                 cons[b][i].type = "COPY_TRANSFORMS" => DriverCount(drivers', b, cons[b][i].name) = 0
          /\ last'.ret.constraints_removed
                 = TotalConstraints(cons, bones) - TotalConstraints(cons', bones)
          /\ last'.ret.drivers_removed = BagCardinality(drivers) - BagCardinality(drivers')
          /\ last'.ret.bones_processed = Cardinality(DefBones)]_vars

\* A built rig has been cleaned
C10_Witness ==
    /\ Ran("clean_rig")
    /\ last.ret.constraints_removed >= 3
    /\ last.ret.drivers_removed = last.ret.constraints_removed
    /\ last.ret.bones_processed = 2

(***************************************************************************)
(* C11. clean_rig leaves the switch metadata alone: the switch properties  *)
(* of CTRL_Settings and their values, the control_rig_tools tag of every   *)
(* bone and the constraints of every bone that is not a DEF_ bone are      *)
(* after it what they were before.                                         *)
(***************************************************************************)
\* the tag of bone b is the same in both tag maps
SameTag(before, after, b) ==
    /\ (b \in DOMAIN before) = (b \in DOMAIN after)
    /\ b \in DOMAIN before => after[b] = before[b]

C11_CleanKeepsMetadata ==
    [][Runs("clean_rig") =>
          /\ props' = props
          /\ \A b \in BoneNames : SameTag(tag, tag', b)
          /\ \A b \in BoneNames : ~ IsDef(b) => cons'[b] = cons[b]]_vars

\* A built rig with switches, tags and a COPY_TRANSFORMS constraint on an FK_
\* bone has been cleaned
C11_Witness ==
    /\ Ran("clean_rig")
    /\ last.ret.constraints_removed > 0
    /\ DOMAIN props # {}
    /\ DEF_c \in DOMAIN tag
    /\ \E i \in DOMAIN cons[FK_c] : cons[FK_c][i].type = "COPY_TRANSFORMS"

(***************************************************************************)
(* C12. Create Rig Switch adds only metadata: when it finishes the switch  *)
(* is a property of CTRL_Settings, every DEF_<base> bone with an FK_<base> *)
(* or MCH_<base> bone lists the switch, every other bone has the tag it    *)
(* had, and the constraints and the drivers are what they were.            *)
(***************************************************************************)
C12_CreateOnlyMetadata ==
    [][Runs("create_rig_switch") =>
          /\ last'.arg.name \in DOMAIN props'
          /\ \A b \in BoneNames :
                 IF IsDef(b) /\ (HasFK(b) \/ HasMCH(b))
                 THEN /\ bone_has_switch(tag', b, last'.arg.name)
                      /\ \A t \in SwitchNames : bone_has_switch(tag, b, t) => bone_has_switch(tag', b, t)
                 ELSE SameTag(tag, tag', b)
          /\ cons' = cons
          /\ drivers' = drivers]_vars

\* A switch has been created on a built rig that has a DEF_ bone without
\* counterpart
C12_Witness ==
    /\ Ran("create_rig_switch")
    /\ last.ret = 2
    /\ DEF_x \in BoneNames
    /\ ~ bone_has_switch(tag, DEF_x, last.arg.name)
    /\ bone_has_switch(tag, DEF_c, last.arg.name)
    /\ drivers # EmptyBag

(***************************************************************************)
(* C13. set_switch_enabled(armature, s, enabled) enables or disables the   *)
(* constraints of switch s only: afterwards every COPY_TRANSFORMS          *)
(* constraint CRS_FK_<s> / CRS_MCH_<s> of a DEF_ bone has mute = not       *)
(* enabled, every other constraint (of another switch, or of a bone that   *)
(* is not a DEF_ bone) has the mute it had, and constraints_toggled is the *)
(* number of constraints of s.                                             *)
(***************************************************************************)
\* constraint c is one that was built for switch s
BuiltFor(c, s) == c.type = "COPY_TRANSFORMS" /\ c.name \in {CRS_FK_ \o s, CRS_MCH_ \o s}

C13_EnableTouchesOnlyItsSwitch ==
    [][Runs("set_switch_enabled") =>
          LET s == last'.arg.switch_name
              mine == {<<b, i>> \in DefBones \X (1..6) : i \in DOMAIN cons[b] /\ BuiltFor(cons[b][i], s)}
          IN /\ \A b \in BoneNames : DOMAIN cons'[b] = DOMAIN cons[b]
             /\ \A b \in BoneNames : \A i \in DOMAIN cons[b] :
                    IF <<b, i>> \in mine
                    THEN cons'[b][i].mute = ~ last'.arg.enabled
                    ELSE cons'[b][i].mute = cons[b][i].mute
             /\ last'.ret.constraints_toggled = Cardinality(mine)]_vars

(***************************************************************************)
(* C14. Validation errors are operator failures without side effects: an   *)
(* operator run without an armature active, Add Switch or Create Rig       *)
(* Switch run with a blank name or on an armature without CTRL_Settings,   *)
(* and Assign run outside Pose Mode or with nothing selected, returns      *)
(* CANCELLED and leaves the switch properties, the tags, the constraints   *)
(* and the drivers as they were.                                           *)
(***************************************************************************)
\* the name is empty or whitespace
OnlySpaces(name) == \A i \in DOMAIN name : name[i] = " "

\* this step runs an operator on an input it is to refuse (the operator is
\* looked up by the name the step records, then its inputs are searched)
InvalidRun ==
    CASE last'.op = "add_switch" ->
             \E obj \in ObjectTypes, name \in NameArgs, mode \in Modes, sel \in Selectable :
                 /\ obj # "ARMATURE" \/ OnlySpaces(name) \/ CTRL_Settings \notin BoneNames
                 /\ AddSwitch(obj, name, mode, sel)
      [] last'.op = "create_rig_switch" ->
             \E obj \in ObjectTypes, name \in NameArgs :
                 /\ obj # "ARMATURE" \/ OnlySpaces(name) \/ CTRL_Settings \notin BoneNames
                 /\ CreateRigSwitch(obj, name)
      [] last'.op = "assign_switch" ->
             \E obj \in ObjectTypes, s \in SwitchNames, mode \in Modes, sel \in Selectable :
                 /\ obj # "ARMATURE" \/ mode # "POSE" \/ sel = <<>>
                 /\ AssignSwitch(obj, s, mode, sel)
      [] last'.op = "build_switches" -> BuildSwitches("NONE")
      [] last'.op = "clean_rig" -> CleanRig("NONE")
      [] last'.op = "clear_switch_properties" -> ClearSwitchProperties("NONE")
      [] last'.op = "remove_triplet_from_switch" ->
             \E base \in RigBaseNames, s \in SwitchNames : RemoveTriplet("NONE", base, s)
      [] OTHER -> FALSE

C14_InvalidRunsCancel ==
    [][(ops' = ops + 1 /\ InvalidRun) =>
          /\ last'.status = "CANCELLED"
          /\ UNCHANGED <<props, tag, cons, drivers>>]_vars

\* Add Switch has been refused on a tagged and built armature without
\* CTRL_Settings
C14_Witness ==
    /\ last.op = "add_switch"
    /\ last.status = "CANCELLED"
    /\ CTRL_Settings \notin BoneNames
    /\ DEF_c \in DOMAIN tag
    /\ drivers # EmptyBag

(***************************************************************************)
(* C15. After clear_switch_properties CTRL_Settings has no switch and no   *)
(* pose bone has a control_rig_tools tag; switch_props_removed is the      *)
(* number of properties deleted from CTRL_Settings and bone_tags_removed   *)
(* the number of bones whose tag was deleted; the operator also leaves the *)
(* proxy collection empty.                                                 *)
(***************************************************************************)
C15_ClearCounts ==
    [][Runs("clear_switch_properties") =>
          /\ DOMAIN list_switches(props') = {}
          /\ DOMAIN tag' = {}
          /\ last'.ret.switch_props_removed
                 = Cardinality(DOMAIN props) + (IF CTRL_Settings \in DOMAIN tag THEN 1 ELSE 0)
          /\ last'.ret.bone_tags_removed = Cardinality(DOMAIN tag)
          /\ proxies' = <<>>]_vars

(***************************************************************************)
(* C16. Every switch value stays in [0,1]: in every reachable state each   *)
(* switch property of CTRL_Settings holds a value from 0 to 1 (0 to        *)
(* ValueSteps in steps of 1 / ValueSteps).                                 *)
(***************************************************************************)
C16_ValuesInRange == \A k \in DOMAIN props : props[k] >= 0 /\ props[k] <= ValueSteps

\* A proxy was given a value above 1 and its switch holds 1
C16_Witness ==
    /\ Ran("proxy_value_update")
    /\ last.arg.value > ValueSteps
    /\ \E k \in DOMAIN props : props[k] = ValueSteps
    /\ proxies[last.arg.i].value = ValueSteps

(***************************************************************************)
(* C17. After build_rebuild_switches, on every processed DEF_ bone the     *)
(* constraints built for its switches are the first of the stack, those of *)
(* a switch with more DEF_ bones before those of a switch with fewer, with *)
(* CRS_FK_<s> directly before CRS_MCH_<s>; the other constraints of the    *)
(* bone follow in the order they had.                                      *)
(***************************************************************************)
\* the names of the constraints build_rebuild_switches makes on bone b
BuiltNames(b) ==
    {CRS_FK_ \o s : s \in {x \in SwitchNames : HasFK(b) /\ bone_has_switch(tag, b, x)}}
    \cup {CRS_MCH_ \o s : s \in {x \in SwitchNames : HasMCH(b) /\ bone_has_switch(tag, b, x)}}

\* the switch of a constraint named CRS_FK_<s> or CRS_MCH_<s>
SwitchOfName(n) == DropFirst(n, Len(CRS_FK_))

\* the constraints of the stack whose name is not in names, in stack order
RECURSIVE Others(_, _)
Others(stack, names) ==
    IF stack = <<>> THEN <<>>
    ELSE (IF Head(stack).name \in names THEN <<>> ELSE <<Head(stack)>>) \o Others(Tail(stack), names)

C17_BuiltFirstByGroupSize ==
    [][Runs("build_switches") =>
          \A k \in DOMAIN last'.ret :
              LET b == last'.ret[k]
                  names == BuiltNames(b)
                  n == Cardinality(names)
                  stack == cons'[b]
              IN /\ Len(stack) >= n
                 /\ {stack[i].name : i \in 1..n} = names
                 /\ \A i, j \in 1..n :
                        i < j => NumTagged(SwitchOfName(stack[i].name))
                                     >= NumTagged(SwitchOfName(stack[j].name))
                 /\ (HasFK(b) /\ HasMCH(b)) =>
                        \A i \in 1..n :
                            StartsWith(stack[i].name, CRS_FK_) =>
                                /\ i < n
                                /\ stack[i + 1].name = CRS_MCH_ \o SwitchOfName(stack[i].name)
                 /\ SubSeq(stack, n + 1, Len(stack)) = Others(cons[b], names)]_vars

\* A bone with two constraints of its own and two switches, one on more DEF_
\* bones than the other, has been built
C17_Witness ==
    /\ Ran("build_switches")
    /\ DEF_a_L \in BoneNames
    /\ Len(cons[DEF_a_L]) = 6
    /\ cons[DEF_a_L][5].type = "IK"
    /\ NumTagged(SwitchOfName(cons[DEF_a_L][1].name)) > NumTagged(SwitchOfName(cons[DEF_a_L][3].name))
    /\ FirstMet(SwitchOfName(cons[DEF_a_L][1].name)) > FirstMet(SwitchOfName(cons[DEF_a_L][3].name))

(***************************************************************************)
(* C18. build_rebuild_switches returns, once each and in pose-bone order,  *)
(* the DEF_<base> bones that list at least one switch and have an          *)
(* FK_<base> or MCH_<base> bone; any other bone keeps its constraints and  *)
(* the drivers on them; a returned bone has CRS_FK_<s> for its switches    *)
(* exactly when FK_<base> exists and gains a CRS_MCH_<s> only when         *)
(* MCH_<base> exists.                                                      *)
(***************************************************************************)
\* the bones build_rebuild_switches is to handle
ToProcess(b) == IsDef(b) /\ (HasFK(b) \/ HasMCH(b)) /\ _parse_bone_switches(tag, b) # <<>>

\* the drivers of the bag that sit on a constraint of bone b
DriversOn(bag, b) ==
    LET prefix == <<"pose.bones[\"">> \o b \o <<"\"].constraints[\"">>
        on == {d \in DOMAIN bag : StartsWith(d.data_path, prefix)}
    IN [d \in on |-> bag[d]]

C18_BuildProcessesTaggedPairs ==
    [][Runs("build_switches") =>
          LET ret == last'.ret IN
          /\ \A b \in BoneNames :
                 Cardinality({k \in DOMAIN ret : ret[k] = b}) = (IF ToProcess(b) THEN 1 ELSE 0)
          /\ \A i, j \in DOMAIN ret : i < j => IndexOf(bones, ret[i]) < IndexOf(bones, ret[j])
          /\ \A b \in BoneNames :
                 ~ ToProcess(b) =>
                     /\ cons'[b] = cons[b]
                     /\ DriversOn(drivers', b) = DriversOn(drivers, b)
          /\ \A b \in BoneNames : \A s \in SwitchNames :
                 ToProcess(b) =>
                     /\ HasFK(b) /\ bone_has_switch(tag, b, s) => NamedCount(cons'[b], CRS_FK_ \o s) = 1
                     /\ HasMCH(b) /\ bone_has_switch(tag, b, s) => NamedCount(cons'[b], CRS_MCH_ \o s) = 1
                     /\ ~ HasFK(b) =>
                            NamedCount(cons'[b], CRS_FK_ \o s) = NamedCount(cons[b], CRS_FK_ \o s)
                     /\ ~ HasMCH(b) =>
                            NamedCount(cons'[b], CRS_MCH_ \o s) = NamedCount(cons[b], CRS_MCH_ \o s)]_vars

\* A build has handled two bones, one without MCH_ counterpart, and skipped a
\* tagged DEF_ bone without any counterpart
C18_Witness ==
    /\ Ran("build_switches")
    /\ last.ret = <<DEF_a_L, DEF_c>>
    /\ DEF_x \in DOMAIN tag
    /\ cons[DEF_x] = <<>>
    /\ \E s \in SwitchNames :
           NamedCount(cons[DEF_c], CRS_FK_ \o s) = 1 /\ NamedCount(cons[DEF_c], CRS_MCH_ \o s) = 0

(***************************************************************************)
(* C19. Rebuild converges to the metadata: whenever build_rebuild_switches *)
(* has just run, the constraints of every DEF_ bone and the drivers are    *)
(* those that clean_rig followed by build_rebuild_switches makes from the  *)
(* same tags, so none is left of a switch the bone no longer lists.        *)
(***************************************************************************)
C19_RebuildConverges ==
    Ran("build_switches") =>
        LET cleaned == clean_rig(bones, cons, drivers)
            fresh == build_rebuild_switches(bones, tag, cleaned.cons, cleaned.drivers)
        IN /\ \A b \in DefBones : cons[b] = fresh.cons[b]
           /\ drivers = fresh.drivers
           /\ \A b \in DefBones : \A s \in SwitchNames :
                  ~ bone_has_switch(tag, b, s) =>
                      \A n \in {CRS_FK_ \o s, CRS_MCH_ \o s} :
                          NamedCount(cons[b], n) = 0 /\ DriverCount(drivers, b, n) = 0

(***************************************************************************)
(* C20. After remove_triplet_from_switch(base, s) on a built rig, no       *)
(* driver that remains on a constraint of a bone unassigned from s has a   *)
(* variable that reads the property of s.                                  *)
(***************************************************************************)
C20_NoDriverReadsRemovedSwitch ==
    [][Runs("remove_triplet_from_switch") =>
          \A b \in BoneNames :
              (/\ derive_base_name_from_last_underscore(b) = last'.arg.base_name
               /\ bone_has_switch(tag, b, last'.arg.switch_name)) =>
                  \A d \in DOMAIN DriversOn(drivers', b) : \A i \in DOMAIN d.variables :
                      d.variables[i].data_path # SwitchPropPath(last'.arg.switch_name)]_vars

(***************************************************************************)
(* C21. The triplets of Assign, Add Switch and remove_triplet_from_switch  *)
(* are those of the DEF_<base> / FK_<base> / MCH_<base> convention that    *)
(* build_rebuild_switches uses: a finished Assign or Add Switch changes    *)
(* the tag only of bones that have the <base> of a selected bone, and a    *)
(* remove_triplet_from_switch changes the tags only of bones of one        *)
(* <base>, bases with underscores included.                                *)
(***************************************************************************)
\* <base> of a bone name, as build_rebuild_switches takes it off the prefix
ConventionBase(name) ==
    IF StartsWith(name, DEF_) THEN DropFirst(name, Len(DEF_))
    ELSE IF StartsWith(name, FK_) THEN DropFirst(name, Len(FK_))
    ELSE IF StartsWith(name, MCH_) THEN DropFirst(name, Len(MCH_))
    ELSE name

\* the bones whose tag this step changes
Retagged ==
    {b \in BoneNames : (b \in DOMAIN tag) # (b \in DOMAIN tag')
                       \/ (b \in DOMAIN tag /\ b \in DOMAIN tag' /\ tag[b] # tag'[b])}

C21_TripletsFollowConvention ==
    [][/\ (Runs("assign_switch") \/ Runs("add_switch"))
          => \A b \in Retagged : \E i \in DOMAIN last'.arg.sel :
                 ConventionBase(b) = ConventionBase(last'.arg.sel[i])
       /\ Runs("remove_triplet_from_switch")
          => \A b, c \in Retagged : ConventionBase(b) = ConventionBase(c)]_vars

(***************************************************************************)
(* C22. remove_bone_from_switch raises ValueError and changes nothing when *)
(* no bone has the name.  Otherwise the bone has no tag afterwards, its    *)
(* constraints are the ones that were not COPY_TRANSFORMS, in their order, *)
(* the drivers are the former ones without those on the influence of a     *)
(* removed constraint, every other bone keeps its tag and its constraints, *)
(* and the returned counts are the numbers of constraints and drivers that *)
(* went away.                                                              *)
(***************************************************************************)
\* the constraints of the stack that are not COPY_TRANSFORMS
NotCopyTransforms(stack) == SelectSeq(stack, LAMBDA c : c.type # "COPY_TRANSFORMS")

\* the influence paths of the COPY_TRANSFORMS constraints of bone b
CopyTransformsPaths(b) ==
    {InfluencePath(b, cons[b][i].name) : i \in {j \in DOMAIN cons[b] : cons[b][j].type = "COPY_TRANSFORMS"}}

C22_RemoveBone ==
    [][/\ \A b \in SideBoneArgs \ BoneNames :
              (ops' = ops + 1 /\ RemoveBone(b))
              => /\ last'.status = "ValueError"
                 /\ UNCHANGED <<bones, props, tag, cons, drivers, proxies>>
       /\ Runs("remove_bone_from_switch")
          => LET b == last'.arg.bone_name IN
             /\ b \in BoneNames
             /\ b \notin DOMAIN tag'
             /\ cons'[b] = NotCopyTransforms(cons[b])
             /\ \A d \in DOMAIN drivers' : d \in DOMAIN drivers /\ drivers'[d] = drivers[d]
             /\ \A d \in DOMAIN drivers :
                    d \notin DOMAIN drivers' <=> d.data_path \in CopyTransformsPaths(b)
             /\ \A o \in BoneNames \ {b} : SameTag(tag, tag', o) /\ cons'[o] = cons[o]
             /\ UNCHANGED <<bones, props, proxies>>
             /\ last'.ret.bone = b
             /\ last'.ret.constraints_removed = Len(cons[b]) - Len(cons'[b])
             /\ last'.ret.drivers_removed = BagCardinality(drivers) - BagCardinality(drivers')]_vars

\* A tagged and built bone that carries other constraints too has been removed
C22_Witness ==
    /\ Ran("remove_bone_from_switch")
    /\ last.ret.constraints_removed >= 1
    /\ last.ret.drivers_removed = last.ret.constraints_removed
    /\ cons[last.arg.bone_name] # <<>>
    /\ \E o \in DOMAIN tag : cons[o] # <<>> /\ DriversOn(drivers, o) # EmptyBag

(***************************************************************************)
(* C23. Adding a switch never resets an existing one: a finished Add       *)
(* Switch or Create Rig Switch leaves every property that CTRL_Settings    *)
(* already had, the one of the operator's own name included, at its        *)
(* value, and a name that was missing is there afterwards with value 0.    *)
(***************************************************************************)
C23_AddKeepsExistingValue ==
    [][(Runs("add_switch") \/ Runs("create_rig_switch"))
          => /\ \A s \in DOMAIN props : s \in DOMAIN props' /\ props'[s] = props[s]
             /\ last'.arg.name \notin DOMAIN props
                   => last'.arg.name \in DOMAIN props' /\ props'[last'.arg.name] = 0]_vars

(***************************************************************************)
(* C24. The control_rig_tools tag round-trips and stays well formed: after *)
(* a finished Add Switch or Assign with a name that is non-empty after     *)
(* stripping, every selected bone has the switch and adding the name to it *)
(* again leaves the tag as it is; after remove_triplet_from_switch no bone *)
(* of the base has the switch; and every present tag is a non-empty        *)
(* semicolon-separated list with no empty and no repeated name.            *)
(***************************************************************************)
\* raw is a non-empty list of names, none empty, none twice
WellFormedTag(raw) ==
    LET parts == Split(raw, ";")
    IN /\ \A i \in DOMAIN parts : parts[i] # <<>> /\ Strip(parts[i]) = parts[i]
       /\ \A i, j \in DOMAIN parts : parts[i] = parts[j] => i = j

\* bone b has switch s in the next state, and adding s once more changes nothing
AddedFor(b, s) == bone_has_switch(tag', b, s) /\ _add_switch_to_bone(tag', b, s) = tag'

C24_TagRoundTrip ==
    [][/\ (Runs("add_switch") /\ ~ OnlySpaces(last'.arg.name))
          => \A b \in Range(last'.arg.sel) : AddedFor(b, last'.arg.name)
       /\ (Runs("assign_switch") /\ ~ OnlySpaces(last'.arg.switch_name))
          => \A b \in Range(last'.arg.sel) : AddedFor(b, last'.arg.switch_name)
       /\ Runs("remove_triplet_from_switch")
          => \A b \in BoneNames :
                 derive_base_name_from_last_underscore(b) = last'.arg.base_name
                 => ~ bone_has_switch(tag', b, last'.arg.switch_name)
       /\ \A b \in DOMAIN tag' : WellFormedTag(tag'[b])]_vars

(***************************************************************************)
(* C25. After build_rebuild_switches, for every DEF_ bone and every        *)
(* valuation of the switches, at most one CRS_FK_ constraint of the bone   *)
(* has a driven influence other than 0, and it is the constraint of the    *)
(* first switch of the bone, in priority order, whose value is not 0.      *)
(***************************************************************************)
\* the CRS_FK_ constraints of bone b that a driver gives an influence other than 0
ActiveFK(b, val) ==
    {i \in DOMAIN cons[b] :
        /\ StartsWith(cons[b][i].name, CRS_FK_)
        /\ \E d \in DriversAtPath(drivers, InfluencePath(b, cons[b][i].name)) :
               EvalDriver(d, val) # 0}

\* the switches of bone b by priority, fewest bones first
PriorityOf(b) == SwitchesForBone(SwitchOrder(bones, tag), tag, b)

C25_OneActiveFK ==
    Ran("build_switches") =>
        \A b \in DefBones : \A val \in Valuations :
            LET sfb == PriorityOf(b)
                live == {j \in DOMAIN sfb : val[sfb[j]] # 0}
            IN /\ Cardinality(ActiveFK(b, val)) <= 1
               /\ \A i \in ActiveFK(b, val) :
                      /\ live # {}
                      /\ cons[b][i].name = CRS_FK_ \o sfb[CHOOSE j \in live : \A k \in live : j <= k]

(***************************************************************************)
(* C26. build_rebuild_switches changes only constraints and drivers of     *)
(* DEF_ bones: the properties of CTRL_Settings and their values, the tag   *)
(* of every bone, the constraints of every bone that is not a DEF_ bone    *)
(* and the drivers on them are after it what they were before, and every   *)
(* constraint a DEF_ bone had is still on the bone, with the type, target  *)
(* bone and mute state it had.                                             *)
(***************************************************************************)
\* constraint c is on the stack, muted or not as c is
KeptOn(stack, c) ==
    \E j \in DOMAIN stack :
        /\ stack[j].name = c.name
        /\ stack[j].type = c.type
        /\ stack[j].subtarget = c.subtarget
        /\ stack[j].mute = c.mute

C26_BuildFrame ==
    [][Runs("build_switches") =>
          /\ props' = props
          /\ tag' = tag
          /\ bones' = bones
          /\ \A b \in BoneNames \ DefBones :
                 cons'[b] = cons[b] /\ DriversOn(drivers', b) = DriversOn(drivers, b)
          /\ \A b \in DefBones : \A i \in DOMAIN cons[b] : KeptOn(cons'[b], cons[b][i])]_vars

\* A rig with a muted switch constraint and constraints of its author's has
\* been rebuilt, with switch properties on CTRL_Settings
C26_Witness ==
    /\ Ran("build_switches")
    /\ last.ret # <<>>
    /\ \E b \in DefBones : \E i \in DOMAIN cons[b] : IsCRSName(cons[b][i].name) /\ cons[b][i].mute
    /\ \E b \in DefBones : \E i \in DOMAIN cons[b] : ~ IsCRSName(cons[b][i].name)
    /\ \E b \in BoneNames \ DefBones : cons[b] # <<>>
    /\ props # EmptyDict

====
